---- MODULE Spec2Model ----
(***************************************************************************)
(* Thrust allocation node of the Seahawk ROV (seahawk_deck/thrust.py).     *)
(*                                                                         *)
(* Numbers.  The program computes in IEEE doubles; the model computes in   *)
(* exact rationals <<n, d>> (d > 0, lowest terms; <<1, 0>> is +infinity).  *)
(* Motors are numbered 1..8 here and 0..7 in the source; the rows of the   *)
(* motor configuration are 1..6 = Fx, Fy, Fz, Rx, Ry, Rz.                  *)
(***************************************************************************)
EXTENDS Integers, Sequences, FiniteSets, TLC

(***************************************************************************)
(* Bounds of the model.                                                    *)
(***************************************************************************)
\* largest |component| of the center of mass, in steps of 1/20 m
MaxOffset == 1
\* number of accepted center-of-mass updates that are followed
MaxUpdates == 3

(***************************************************************************)
(* Exact rational arithmetic.                                              *)
(***************************************************************************)
Abs(x) == IF x < 0 THEN -x ELSE x

RECURSIVE GCD(_, _)
GCD(a, b) == IF b = 0 THEN a ELSE GCD(b, a % b)

Sign(x) == IF x < 0 THEN -1 ELSE IF x > 0 THEN 1 ELSE 0

\* the rational n/d in lowest terms with a positive denominator
Rat(n, d) ==
    IF d = 0 THEN <<Sign(n), 0>>
    ELSE LET g == GCD(Abs(n), Abs(d))
         IN  <<Sign(d) * Sign(n) * (Abs(n) \div g), Abs(d) \div g>>

Zero == <<0, 1>>
One == <<1, 1>>
Inf == <<1, 0>>

RInt(n) == <<n, 1>>
\* over the least common denominator, which keeps the products small
RAdd(a, b) ==
    LET g == GCD(a[2], b[2])
    IN  Rat(a[1] * (b[2] \div g) + b[1] * (a[2] \div g), (a[2] \div g) * b[2])
RNeg(a) == <<-a[1], a[2]>>
RSub(a, b) == RAdd(a, RNeg(b))
\* cross-cancelling keeps the intermediate products small
RMul(a, b) ==
    LET g1 == GCD(Abs(a[1]), Abs(b[2]))
        g2 == GCD(Abs(b[1]), Abs(a[2]))
        h1 == IF g1 = 0 THEN 1 ELSE g1
        h2 == IF g2 = 0 THEN 1 ELSE g2
    IN  Rat((a[1] \div h1) * (b[1] \div h2), (a[2] \div h2) * (b[2] \div h1))
RInv(a) == Rat(a[2], a[1])
RDiv(a, b) == RMul(a, RInv(b))
RLe(a, b) == a[1] * b[2] <= b[1] * a[2]
RLt(a, b) == a[1] * b[2] < b[1] * a[2]
RAbs(a) == <<Abs(a[1]), a[2]>>
RIsZero(a) == a[1] = 0

\* the function f on 1..n as a tuple of its n values, each computed once
List(f, n) == SubSeq(f, 1, n)

\* x ** k, by repeated multiplication
RECURSIVE RPow(_, _)
RPow(x, k) == IF k = 0 THEN One ELSE RMul(x, RPow(x, k - 1))

\* sum(seq) of a sequence of rationals
RECURSIVE RSum(_)
RSum(s) == IF s = <<>> THEN Zero ELSE RAdd(Head(s), RSum(Tail(s)))

\* min(seq) and max(seq) of a non-empty sequence of rationals
RECURSIVE RMin(_)
RMin(s) ==
    IF Len(s) = 1 THEN s[1]
    ELSE LET m == RMin(Tail(s)) IN IF RLe(s[1], m) THEN s[1] ELSE m

RECURSIVE RMax(_)
RMax(s) ==
    IF Len(s) = 1 THEN s[1]
    ELSE LET m == RMax(Tail(s)) IN IF RLe(m, s[1]) THEN s[1] ELSE m

\* int(x): truncation toward zero
RTrunc(x) == Sign(x[1]) * (Abs(x[1]) \div x[2])

(***************************************************************************)
(* Thrust.__init__: limits and motor geometry.                             *)
(***************************************************************************)
\* 36.3826715 * 2 N and -28.6354180 * 2 N, to a tenth of a newton
MAX_FWD_THRUST == Rat(728, 10)
MAX_REV_THRUST == Rat(-573, 10)

TOTAL_CURRENT_LIMIT == 70
ESC_CURRENT_LIMIT == 40

Motors == 1..8

\* [X, Y, Z] position of each motor, metres
motor_positions ==
    << <<Rat( 200, 1000), Rat( 130, 1000), Rat(  4, 1000)>>,
       <<Rat( 200, 1000), Rat(-130, 1000), Rat( 47, 1000)>>,
       <<Rat(-200, 1000), Rat( 130, 1000), Rat( 47, 1000)>>,
       <<Rat(-200, 1000), Rat(-130, 1000), Rat( 47, 1000)>>,
       <<Rat( 198, 1000), Rat( 156, 1000), Rat(-38, 1000)>>,
       <<Rat( 198, 1000), Rat(-156, 1000), Rat(-38, 1000)>>,
       <<Rat(-198, 1000), Rat( 156, 1000), Rat(-38, 1000)>>,
       <<Rat(-198, 1000), Rat(-156, 1000), Rat(-38, 1000)>> >>

\* [X, Y, Z] components of thrust of each motor
motor_thrusts ==
    << <<Zero, Zero, RInt(-1)>>,
       <<Zero, Zero, RInt( 1)>>,
       <<Zero, Zero, RInt( 1)>>,
       <<Zero, Zero, RInt(-1)>>,
       <<Rat(-7071, 10000), Rat( 7071, 10000), Zero>>,
       <<Rat(-7071, 10000), Rat(-7071, 10000), Zero>>,
       <<Rat( 7071, 10000), Rat( 7071, 10000), Zero>>,
       <<Rat( 7071, 10000), Rat(-7071, 10000), Zero>> >>

Origin == <<Zero, Zero, Zero>>

(***************************************************************************)
(* Thrust.generate_motor_config                                            *)
(***************************************************************************)
\* np.subtract(a, b) of two 3-vectors
Subtract(a, b) == <<RSub(a[1], b[1]), RSub(a[2], b[2]), RSub(a[3], b[3])>>

\* np.cross(a, b) of two 3-vectors
Cross(a, b) ==
    << RSub(RMul(a[2], b[3]), RMul(a[3], b[2])),
       RSub(RMul(a[3], b[1]), RMul(a[1], b[3])),
       RSub(RMul(a[1], b[2]), RMul(a[2], b[1])) >>

generate_motor_config(center_of_mass_offset) ==
    LET shifted_positons ==
            List([m \in Motors |-> Subtract(motor_positions[m], center_of_mass_offset)], 8)
        torques ==
            List([m \in Motors |-> Cross(shifted_positons[m], motor_thrusts[m])], 8)
    IN  << List([m \in Motors |-> motor_thrusts[m][1]], 8),
           List([m \in Motors |-> motor_thrusts[m][2]], 8),
           List([m \in Motors |-> motor_thrusts[m][3]], 8),
           List([m \in Motors |-> torques[m][1]], 8),
           List([m \in Motors |-> torques[m][2]], 8),
           List([m \in Motors |-> torques[m][3]], 8) >>

(***************************************************************************)
(* np.linalg.pinv(self.motor_config, rcond=1e-15, hermitian=False)         *)
(*                                                                         *)
(* The motor configuration A(c) for offset c is L(c) * A(0), where L(c) is *)
(* the identity with the block -[c]x below the diagonal (a torque about c  *)
(* is the torque about the origin minus c x force).  A(0) has rank 6, so   *)
(* pinv(A(c)) = pinv(A(0)) * L(c)^-1, and L(c)^-1 is the identity with the *)
(* block +[c]x below the diagonal.  Pinv0 is pinv(A(0)), exactly.  The     *)
(* program holds the result in doubles; the model holds it to the nearest  *)
(* 1/40.                                                                   *)
(***************************************************************************)
\* a variant whose surge column leaves the vertical thrusters idle
Pinv0_VerticalsIdle ==
    << <<Zero, Rat( 19, 260), Rat(-1, 4), Rat(-25, 13), Rat( 5, 4), Zero>>,
       <<Zero, Rat( 19, 260), Rat( 1, 4), Rat(-25, 13), Rat(-5, 4), Zero>>,
       <<Zero, Rat(-19, 260), Rat( 1, 4), Rat( 25, 13), Rat( 5, 4), Zero>>,
       <<Zero, Rat(-19, 260), Rat(-1, 4), Rat( 25, 13), Rat(-5, 4), Zero>>,
       <<Rat(-2500, 7071), Rat( 2500, 7071), Zero, Zero, Zero, Rat( 1250000, 1251567)>>,
       <<Rat(-2500, 7071), Rat(-2500, 7071), Zero, Zero, Zero, Rat(-1250000, 1251567)>>,
       <<Rat( 2500, 7071), Rat( 2500, 7071), Zero, Zero, Zero, Rat(-1250000, 1251567)>>,
       <<Rat( 2500, 7071), Rat(-2500, 7071), Zero, Zero, Zero, Rat( 1250000, 1251567)>> >>

Pinv0 ==
    << <<Rat( 19, 400), Rat( 19, 260), Rat(-1, 4), Rat(-25, 13), Rat( 5, 4), Zero>>,
       <<Rat(-19, 400), Rat( 19, 260), Rat( 1, 4), Rat(-25, 13), Rat(-5, 4), Zero>>,
       <<Rat( 19, 400), Rat(-19, 260), Rat( 1, 4), Rat( 25, 13), Rat( 5, 4), Zero>>,
       <<Rat(-19, 400), Rat(-19, 260), Rat(-1, 4), Rat( 25, 13), Rat(-5, 4), Zero>>,
       <<Rat(-2500, 7071), Rat( 2500, 7071), Zero, Zero, Zero, Rat( 1250000, 1251567)>>,
       <<Rat(-2500, 7071), Rat(-2500, 7071), Zero, Zero, Zero, Rat(-1250000, 1251567)>>,
       <<Rat( 2500, 7071), Rat( 2500, 7071), Zero, Zero, Zero, Rat(-1250000, 1251567)>>,
       <<Rat( 2500, 7071), Rat(-2500, 7071), Zero, Zero, Zero, Rat( 1250000, 1251567)>> >>

\* x to the nearest multiple of 1/40
Stored(x) ==
    LET twice == (Abs(x[1]) * 80) \div x[2]
    IN  Rat(Sign(x[1]) * ((twice + 1) \div 2), 40)

\* the matrix [c]x of the cross product with c
CrossMat(c) ==
    << <<Zero, RNeg(c[3]), c[2]>>,
       <<c[3], Zero, RNeg(c[1])>>,
       <<RNeg(c[2]), c[1], Zero>> >>

\* the offset a motor configuration was generated for, read off the torques of
\* motor 1 (thrust [0, 0, -1]: torque [-sy, sx, 0] for shifted position s) and
\* of motor 5 (thrust [-a, a, 0]: Rx = -sz * a)
OffsetOf(config) ==
    LET sx == config[5][1]
        sy == RNeg(config[4][1])
        sz == RNeg(RDiv(config[4][5], motor_thrusts[5][2]))
    IN  << RSub(motor_positions[1][1], sx),
           RSub(motor_positions[1][2], sy),
           RSub(motor_positions[5][3], sz) >>

Pinv(config) ==
    LET cx == CrossMat(OffsetOf(config))
    IN  List([m \in Motors |->
                List([k \in 1..6 |->
                        IF k <= 3
                        THEN Stored(RSum(<< Pinv0[m][k],
                                            RMul(Pinv0[m][4], cx[1][k]),
                                            RMul(Pinv0[m][5], cx[2][k]),
                                            RMul(Pinv0[m][6], cx[3][k]) >>))
                        ELSE Stored(Pinv0[m][k])],
                     6)],
             8)

(***************************************************************************)
(* State of the node.                                                      *)
(***************************************************************************)
VARIABLES
    publishing_pwm,     \* value of the parameter read by __init__ (line 96)
    center_of_mass,     \* self.center_of_mass
    motor_config,       \* self.motor_config
    inverse_config,     \* self.inverse_config
    thrust_fit_params,  \* self.thrust_fit_params
    pwm_fit_params,     \* self.pwm_fit_params (<<>>: the attribute is not set)
    pc,                 \* main: "spinning", "returned", "crashed", "shutdown"
    upd,                \* the update_center_of_mass call in progress, if any
    last,               \* the callback that has just returned and what it did
    prior,              \* the last probe twist answered, and whether an update
                        \* has been rejected since
    accepted,           \* the center-of-mass increments accepted so far
    startup,            \* the calibration tables and what __init__ has done
    parameter,          \* the node's current value of parameter publishing_pwm
    widget              \* the CountdownWidget of the dashboard

vars == <<publishing_pwm, center_of_mass, motor_config, inverse_config,
          thrust_fit_params, pwm_fit_params, pc, upd, last, prior, accepted,
          startup, parameter, widget>>

(***************************************************************************)
(* Thrust.update_center_of_mass                                            *)
(***************************************************************************)
\* the step of the increments sent by the pilot station: 1/20 m
Step(k) == Rat(k, 20)

\* a variant that assigns the increment instead of adding it
AddIncrement_Assign(com, value) == List([i \in 1..3 |-> value[i]], 3)

\* for i, inc in enumerate(value): self.center_of_mass[i] += inc
AddIncrement(com, value) == List([i \in 1..3 |-> RAdd(com[i], value[i])], 3)

\* a variant that takes a value of 3 or more components
RECURSIVE FindIncrement_AtLeast3(_, _)
FindIncrement_AtLeast3(params, i) ==
    IF i > Len(params) THEN [found |-> FALSE, value |-> <<>>]
    ELSE IF params[i].name = "center_of_mass_increment" /\ Len(params[i].value) >= 3
         THEN [found |-> TRUE, value |-> params[i].value]
         ELSE FindIncrement_AtLeast3(params, i + 1)

\* the for loop from params[i] on: the value of the first parameter named
\* center_of_mass_increment that has 3 components
RECURSIVE FindIncrement(_, _)
FindIncrement(params, i) ==
    IF i > Len(params) THEN [found |-> FALSE, value |-> <<>>]
    ELSE IF params[i].name = "center_of_mass_increment" /\ Len(params[i].value) = 3
         THEN [found |-> TRUE, value |-> params[i].value]
         ELSE FindIncrement(params, i + 1)

\* a variant that adds the zero vector like any other increment
NewOffset_NoReset(value) == AddIncrement(center_of_mass, value)

\* lines 186-190: the offset after the update by value
NewOffset(value) ==
    IF value = <<Zero, Zero, Zero>> THEN value
    ELSE AddIncrement(center_of_mass, value)

\* a variant that returns success and leaves the pseudo-inverse for later
Rebuilt_Deferred(com, config, value) ==
    [center_of_mass |-> com, motor_config |-> config,
     inverse_config |-> inverse_config, successful |-> TRUE, applied |-> value]

\* lines 191-193 for the offset com
Rebuilt(com, config, value) ==
    [center_of_mass |-> com, motor_config |-> config,
     inverse_config |-> Pinv(config), successful |-> TRUE, applied |-> value]

\* the new offset and matrices, the SetParametersResult and the value applied
update_center_of_mass(params) ==
    LET hit == FindIncrement(params, 1)
    IN  IF hit.found
        THEN Rebuilt(NewOffset(hit.value),
                     generate_motor_config(NewOffset(hit.value)), hit.value)
        ELSE [center_of_mass |-> center_of_mass, motor_config |-> motor_config,
              inverse_config |-> inverse_config, successful |-> FALSE,
              applied |-> <<>>]

(***************************************************************************)
(* np.roots(coef_list), the real roots only.  np.roots drops the leading   *)
(* zero coefficients, turns each trailing zero coefficient into a root 0   *)
(* and returns the eigenvalues of the companion matrix of what is left, in *)
(* floating point.  The model gives the real roots of what is left when    *)
(* its degree is at most 2 (the calibrations of ThrustFits have degree 2), *)
(* a square root being taken from below to a fixed resolution.             *)
(***************************************************************************)
RECURSIVE SqrtSearch(_, _, _)
SqrtSearch(y, lo, hi) ==
    IF hi - lo <= 1 THEN lo
    ELSE LET mid == (lo + hi) \div 2
         IN  IF mid * mid <= y THEN SqrtSearch(y, mid, hi) ELSE SqrtSearch(y, lo, mid)

\* the largest k with k * k <= y
ISqrt(y) == SqrtSearch(y, 0, IF y < 46340 THEN y + 1 ELSE 46340)

\* the square root of x >= 0 from below: to 1/16, and to 1 from 65536 on
RSqrt(x) ==
    IF x[1] \div x[2] >= 65536
    THEN RInt(ISqrt(x[1] \div x[2]))
    ELSE Rat(ISqrt((x[1] \div x[2]) * 256 + ((x[1] % x[2]) * 256) \div x[2]), 16)

RECURSIVE StripLeading(_)
StripLeading(p) ==
    IF p = <<>> \/ ~RIsZero(Head(p)) THEN p ELSE StripLeading(Tail(p))

RECURSIVE StripTrailing(_)
StripTrailing(p) ==
    IF p = <<>> \/ ~RIsZero(p[Len(p)]) THEN p
    ELSE StripTrailing(SubSeq(p, 1, Len(p) - 1))

\* the real roots of a polynomial without leading or trailing zero coefficient
RealRootsOf(p) ==
    CASE Len(p) <= 1 -> {}
      [] Len(p) = 2 -> {RNeg(RDiv(p[2], p[1]))}
      [] Len(p) = 3 ->
            LET mid == RNeg(RDiv(p[2], RMul(RInt(2), p[1])))
                sq == RSub(RMul(mid, mid), RDiv(p[3], p[1]))
            IN  IF sq[1] < 0 THEN {}
                ELSE {RSub(mid, RSqrt(sq)), RAdd(mid, RSqrt(sq))}

RealRoots(coef_list) ==
    LET lead == StripLeading(coef_list)
        core == StripTrailing(lead)
    IN  RealRootsOf(core) \cup (IF Len(core) < Len(lead) THEN {Zero} ELSE {})

(***************************************************************************)
(* Thrust.get_polynomial_coef .. Thrust.get_minimum_current_scalar         *)
(***************************************************************************)
\* fit_param * sum([thrust**k for thrust in mv]); a zero parameter gives zero
PowerTerm(fit_param, mv, k) ==
    IF RIsZero(fit_param) THEN Zero
    ELSE RMul(fit_param, RSum(List([i \in 1..Len(mv) |-> RPow(mv[i], k)], Len(mv))))

get_polynomial_coef(mv, limit) ==
    << PowerTerm(thrust_fit_params[1], mv, 6),
       PowerTerm(thrust_fit_params[2], mv, 5),
       PowerTerm(thrust_fit_params[3], mv, 4),
       PowerTerm(thrust_fit_params[4], mv, 3),
       PowerTerm(thrust_fit_params[5], mv, 2),
       PowerTerm(thrust_fit_params[6], mv, 1),
       RSub(RMul(thrust_fit_params[7], RInt(Len(mv))), RInt(limit)) >>

\* the elements of a set of rationals as a sequence, for min()
RECURSIVE SeqOf(_)
SeqOf(S) == IF S = {} THEN <<>> ELSE LET x == CHOOSE y \in S : TRUE
                                     IN  <<x>> \o SeqOf(S \ {x})

\* min(real_positive); [raised |-> TRUE]: min() of an empty list raises
\* ValueError
MinOf(real_positive) ==
    IF real_positive = {}
    THEN [raised |-> TRUE, value |-> Zero]
    ELSE [raised |-> FALSE, value |-> RMin(SeqOf(real_positive))]

get_current_scalar_value(mv, limit) ==
    MinOf({scalar \in RealRoots(get_polynomial_coef(mv, limit)) : scalar[1] >= 0})

\* min(total_scalar, esc1_scalar, esc2_scalar), unless one of the three
\* calls raised
MinOfThree(total_scalar, esc1_scalar, esc2_scalar) ==
    IF total_scalar.raised \/ esc1_scalar.raised \/ esc2_scalar.raised
    THEN [raised |-> TRUE, value |-> Zero]
    ELSE [raised |-> FALSE,
          value |-> RMin(<<total_scalar.value, esc1_scalar.value, esc2_scalar.value>>)]

\* a variant that leaves out the second circuit
get_minimum_current_scalar_TwoGroups(mv) ==
    MinOfThree(get_current_scalar_value(mv, TOTAL_CURRENT_LIMIT),
               get_current_scalar_value(SubSeq(mv, 1, 4), ESC_CURRENT_LIMIT),
               get_current_scalar_value(SubSeq(mv, 1, 4), ESC_CURRENT_LIMIT))

get_minimum_current_scalar(mv) ==
    MinOfThree(get_current_scalar_value(mv, TOTAL_CURRENT_LIMIT),
               get_current_scalar_value(SubSeq(mv, 1, 4), ESC_CURRENT_LIMIT),
               get_current_scalar_value(SubSeq(mv, 5, 8), ESC_CURRENT_LIMIT))

(***************************************************************************)
(* Thrust.get_thrust_limit_scalar, Thrust.generate_motor_values            *)
(***************************************************************************)
\* a variant that divides the forward limit by every nonzero force
get_thrust_limit_scalar_FwdOnly(motor_values) ==
    RMin(List([i \in 1..Len(motor_values) |->
                 IF motor_values[i][1] # 0
                 THEN RDiv(MAX_FWD_THRUST, motor_values[i])
                 ELSE Inf],
              Len(motor_values)))

get_thrust_limit_scalar(motor_values) ==
    RMin(List([i \in 1..Len(motor_values) |->
                 LET thrust == motor_values[i]
                 IN  IF thrust[1] > 0 THEN RDiv(MAX_FWD_THRUST, thrust)
                     ELSE IF thrust[1] < 0 THEN RDiv(MAX_REV_THRUST, thrust)
                     ELSE Inf],
              Len(motor_values)))

ZeroTwist == <<Zero, Zero, Zero, Zero, Zero, Zero>>

\* np.matmul(matrix, vector)
MatMul(matrix, vector) ==
    List([i \in 1..Len(matrix) |->
            RSum(List([k \in 1..Len(vector) |-> RMul(matrix[i][k], vector[k])],
                      Len(vector)))],
         Len(matrix))

AllocationCalls == <<"matmul", "get_thrust_limit_scalar", "get_minimum_current_scalar">>

\* lines 294-297. raised: an exception left the function; calls: what it
\* called on the way
Scaled(motor_values, thrust_scalar, current_scalar, twist_array) ==
    IF current_scalar.raised
    THEN [raised |-> TRUE, values |-> <<>>, calls |-> AllocationCalls]
    ELSE LET scalar ==
                 RMul(RMin(<<thrust_scalar, current_scalar.value>>),
                      RMax(List([k \in 1..6 |-> RAbs(twist_array[k])], 6)))
         IN  [raised |-> FALSE,
              values |-> List([m \in Motors |-> RMul(motor_values[m], scalar)], 8),
              calls |-> AllocationCalls]

\* lines 290-297
Limited(motor_values, twist_array) ==
    Scaled(motor_values, get_thrust_limit_scalar(motor_values),
           get_minimum_current_scalar(motor_values), twist_array)

\* lines 288-297
Allocate(twist_array) == Limited(MatMul(inverse_config, twist_array), twist_array)

\* a variant without the early return for the zero twist
generate_motor_values_NoFastPath(twist_array) == Allocate(twist_array)

generate_motor_values(twist_array) ==
    IF twist_array = ZeroTwist
    THEN [raised |-> FALSE, values |-> List([m \in Motors |-> Zero], 8), calls |-> <<>>]
    ELSE Allocate(twist_array)

(***************************************************************************)
(* Thrust.newtons_to_pwm, Thrust.thrust_callback, Thrust.pwm_callback,     *)
(* Thrust.__del__                                                          *)
(***************************************************************************)
\* coef * x**k; a zero coefficient gives zero
Monomial(coef, x, k) == IF RIsZero(coef) THEN Zero ELSE RMul(coef, RPow(x, k))

newtons_to_pwm(x, a, b, c, d, e, f) ==
    RSum(<< Monomial(a, x, 5), Monomial(b, x, 4), Monomial(c, x, 3),
            Monomial(d, x, 2), Monomial(e, x, 1), f >>)

\* what a callback did: raised, and the messages it published
PublishThrust(motor_values) ==
    IF motor_values.raised
    THEN [raised |-> TRUE, values |-> <<>>, calls |-> motor_values.calls,
          emitted |-> <<>>]
    ELSE [raised |-> FALSE, values |-> motor_values.values,
          calls |-> motor_values.calls,
          emitted |-> <<[topic |-> "motor_values", data |-> motor_values.values]>>]

thrust_callback(twist_msg) == PublishThrust(generate_motor_values(twist_msg))

\* line 346
Clamp(raw) == IF raw > 1900 THEN 1900 ELSE IF raw < 1100 THEN 1100 ELSE raw

\* a variant without the override for a force of 0
PwmOf_NoNeutral(newton) ==
    Clamp(RTrunc(newtons_to_pwm(newton,
                    pwm_fit_params[1], pwm_fit_params[2], pwm_fit_params[3],
                    pwm_fit_params[4], pwm_fit_params[5], pwm_fit_params[6])))

\* one element of pwm_values.data
PwmOf(newton) ==
    IF newton = Zero THEN 1500
    ELSE Clamp(RTrunc(newtons_to_pwm(newton,
                         pwm_fit_params[1], pwm_fit_params[2], pwm_fit_params[3],
                         pwm_fit_params[4], pwm_fit_params[5], pwm_fit_params[6])))

PublishPwm(motor_values) ==
    IF motor_values.raised
    THEN [raised |-> TRUE, values |-> <<>>, calls |-> motor_values.calls,
          emitted |-> <<>>]
    ELSE [raised |-> FALSE, values |-> motor_values.values,
          calls |-> motor_values.calls,
          emitted |-> <<[topic |-> "pwm_values",
                         data |-> List([m \in Motors |-> PwmOf(motor_values.values[m])],
                                       8)]>>]

pwm_callback(twist_msg) == PublishPwm(generate_motor_values(twist_msg))

\* self.pwm_pub exists only when __init__ took the PWM branch; without it
\* the publish raises AttributeError, which a finalizer swallows
Del ==
    IF publishing_pwm
    THEN <<[topic |-> "pwm_values", data |-> List([m \in Motors |-> 1500], 8)]>>
    ELSE <<>>

(***************************************************************************)
(* Inputs.                                                                 *)
(***************************************************************************)
\* calibrations thrust -> current that curve_fit may return, a*x^6 .. + g:
\* 0.01 x^2, 0.001 x^2 + 1, and one that falls with thrust
ThrustFits ==
    { <<Zero, Zero, Zero, Zero, Rat(1, 100), Zero, Zero>>,
      <<Zero, Zero, Zero, Zero, Rat(1, 1000), Zero, One>>,
      <<Zero, Zero, Zero, Zero, Rat(-1, 100), Zero, Zero>> }

\* calibrations thrust -> PWM that curve_fit may return, a*x^5 .. + f
PwmFits ==
    { <<Zero, Zero, Zero, Zero, RInt(5), RInt(1500)>>,
      <<Zero, Zero, Zero, Zero, RInt(8), RInt(1496)>> }

\* directions of the twists sent, and their magnitudes
TwistShapes ==
    { <<1, 0, 0, 0, 0, 0>>, <<0, 0, 1, 0, 0, 0>>, <<1, 1, 0, 0, 0, 0>>,
      <<1, 0, 1, 0, 0, 0>>, <<1, -1, 0, 0, 0, 1>> }

TwistScales == {One, RInt(2)}

\* the twists whose answers are compared across a rejected update
ProbeTwists ==
    { <<One, Zero, One, Zero, Zero, Zero>>,
      <<Rat(1, 2), Rat(-1, 2), Zero, Zero, Zero, Rat(1, 2)>> }

Twists ==
    {ZeroTwist} \cup ProbeTwists \cup
    { List([k \in 1..6 |-> RMul(RInt(shape[k]), scale)], 6) :
        shape \in TwistShapes, scale \in TwistScales }

CoM(value) == [name |-> "center_of_mass_increment", value |-> value]
Pwm(value) == [name |-> "publishing_pwm", value |-> value]

\* the parameter lists the callback is called with
ParamEvents ==
    << <<CoM(<<Zero, Zero, Zero>>)>>,
       <<CoM(<<Step(1), Zero, Zero>>)>>,
       <<CoM(<<Zero, Step(-1), Step(1)>>)>>,
       <<CoM(<<>>)>>,
       <<CoM(<<Step(1), Step(1)>>)>>,
       <<CoM(<<Step(1), Zero, Zero, Step(1)>>)>>,
       <<Pwm(FALSE)>>,
       <<Pwm(FALSE), CoM(<<Zero, Step(-1), Step(1)>>)>>,
       <<CoM(<<Step(1), Step(1)>>), Pwm(FALSE)>> >>

InBounds(com) ==
    \A i \in 1..3 : RLe(RAbs(com[i]), Step(MaxOffset))

(***************************************************************************)
(* main: Thrust() and rclpy.spin(node) on the single-threaded executor.    *)
(* Every callback runs to completion before the executor takes the next.   *)
(***************************************************************************)
Record(op, arg, status, values, calls, emitted) ==
    [op |-> op, arg |-> arg, status |-> status, values |-> values,
     calls |-> calls, emitted |-> emitted]

Idle == Record("none", <<>>, "ok", <<>>, <<>>, <<>>)

NoUpdate == [line |-> 0, params |-> <<>>, value |-> <<>>]

\* both calibration tables were readable and __init__ has returned
Started ==
    [pwm_table |-> "ok", thrust_table |-> "ok", subscribed |-> TRUE, queued |-> FALSE]

\* the node's process holds no CountdownWidget
NoWidget == [status |-> "none"]

NoPrior == [twist |-> <<>>, values |-> <<>>, emitted |-> <<>>, rejected |-> FALSE]

Init ==
    /\ publishing_pwm \in BOOLEAN
    /\ center_of_mass = <<Zero, Zero, Zero>>
    /\ motor_config = generate_motor_config(center_of_mass)
    /\ inverse_config = Pinv(motor_config)
    /\ pwm_fit_params \in (IF publishing_pwm THEN PwmFits ELSE {<<>>})
    /\ thrust_fit_params \in ThrustFits
    /\ pc = "spinning"
    /\ upd = NoUpdate
    /\ last = Idle
    /\ prior = NoPrior
    /\ accepted = <<>>
    /\ startup = Started
    /\ parameter = publishing_pwm
    /\ widget = NoWidget

\* the subscription callback on a Twist; an exception of the callback leaves
\* rclpy.spin and main, which catches KeyboardInterrupt only
\* a variant that picks the callback by the parameter's current value
Subscribed_ByParameter(twist_msg) ==
    IF parameter THEN pwm_callback(twist_msg) ELSE thrust_callback(twist_msg)

\* the callback __init__ subscribed to desired_twist (lines 98, 102)
Subscribed(twist_msg) ==
    IF publishing_pwm THEN pwm_callback(twist_msg) ELSE thrust_callback(twist_msg)

\* the value of publishing_pwm after a parameter set that the callback
\* accepted: the node stores every parameter of the request
RECURSIVE StoredAfter(_, _, _)
StoredAfter(params, i, current) ==
    IF i > Len(params) THEN current
    ELSE StoredAfter(params, i + 1,
                     IF params[i].name = "publishing_pwm" THEN params[i].value
                     ELSE current)

RunTwist(twist_msg) ==
    /\ \E done \in {Subscribed(twist_msg)} :
           /\ last' = Record("twist", twist_msg,
                             IF done.raised THEN "raised" ELSE "ok",
                             done.values, done.calls, done.emitted)
           /\ pc' = IF done.raised THEN "crashed" ELSE "returned"
    /\ UNCHANGED <<publishing_pwm, center_of_mass, motor_config,
                   inverse_config, thrust_fit_params, pwm_fit_params, upd,
                   prior, accepted, startup, parameter, widget>>

TwistMsg(twist_msg) ==
    /\ pc = "spinning"
    /\ upd = NoUpdate
    /\ RunTwist(twist_msg)

\* a parameter-set request: the on-set callback runs
SetParameters(params) ==
    /\ pc = "spinning"
    /\ upd = NoUpdate
    /\ \E done \in {update_center_of_mass(params)} :
           /\ InBounds(done.center_of_mass)
           /\ done.successful => Len(accepted) < MaxUpdates
           /\ center_of_mass' = done.center_of_mass
           /\ motor_config' = done.motor_config
           /\ inverse_config' = done.inverse_config
           /\ accepted' = IF done.successful THEN Append(accepted, done.applied)
                          ELSE accepted
           /\ last' = Record("params", params,
                             IF done.successful THEN "success" ELSE "failure",
                             <<>>, <<>>, <<>>)
           /\ parameter' = IF done.successful
                            THEN StoredAfter(params, 1, parameter)
                            ELSE parameter
    /\ pc' = "returned"
    /\ UNCHANGED <<publishing_pwm, thrust_fit_params, pwm_fit_params, upd,
                   prior, startup, widget>>

\* what is remembered of the callback that has returned
Remember ==
    IF last.op = "twist" /\ last.arg \in ProbeTwists
    THEN [twist |-> last.arg, values |-> last.values, emitted |-> last.emitted,
          rejected |-> FALSE]
    ELSE IF last.op = "params" /\ last.status = "success" THEN NoPrior
    ELSE IF last.op = "params" /\ prior # NoPrior THEN [prior EXCEPT !.rejected = TRUE]
    ELSE prior

\* the executor goes back to wait for the next message
Spin ==
    /\ pc = "returned"
    /\ pc' = "spinning"
    /\ last' = Idle
    /\ prior' = Remember
    /\ UNCHANGED <<publishing_pwm, center_of_mass, motor_config,
                   inverse_config, thrust_fit_params, pwm_fit_params, upd,
                   accepted, startup, parameter, widget>>

\* Ctrl-C during spin: del node, rclpy.shutdown()
KeyboardInterrupt ==
    /\ pc = "spinning"
    /\ upd = NoUpdate
    /\ pc' = "shutdown"
    /\ last' = Record("teardown", <<>>, "ok", <<>>, <<>>, Del)
    /\ UNCHANGED <<publishing_pwm, center_of_mass, motor_config,
                   inverse_config, thrust_fit_params, pwm_fit_params, upd,
                   prior, accepted, startup, parameter, widget>>

Next ==
    \/ \E twist_msg \in Twists : TwistMsg(twist_msg)
    \/ \E e \in 1..Len(ParamEvents) : SetParameters(ParamEvents[e])
    \/ Spin
    \/ KeyboardInterrupt

Spec == Init /\ [][Next]_vars

(***************************************************************************)
(* The same node on an executor that runs callbacks in parallel: the       *)
(* parameter callback is at a line of update_center_of_mass while twist    *)
(* callbacks run.  The code takes no lock.                                 *)
(***************************************************************************)
\* lines 183-190: the loop finds the value and updates the offset, or
\* line 194: returns failure
UpdateOffset(params) ==
    /\ pc \in {"spinning", "returned"}
    /\ upd = NoUpdate
    /\ \E hit \in {FindIncrement(params, 1)} :
          IF hit.found
          THEN /\ Len(accepted) < MaxUpdates
               /\ InBounds(NewOffset(hit.value))
               /\ center_of_mass' = NewOffset(hit.value)
               /\ upd' = [line |-> 191, params |-> params, value |-> hit.value]
               /\ prior' = NoPrior
          ELSE /\ UNCHANGED center_of_mass
               /\ upd' = [line |-> 194, params |-> params, value |-> <<>>]
               /\ prior' = IF prior # NoPrior THEN [prior EXCEPT !.rejected = TRUE]
                           ELSE prior
    /\ UNCHANGED <<publishing_pwm, motor_config, inverse_config,
                   thrust_fit_params, pwm_fit_params, pc, last, accepted,
                   startup, parameter, widget>>

\* line 191
UpdateConfig ==
    /\ upd.line = 191
    /\ motor_config' = generate_motor_config(center_of_mass)
    /\ upd' = [upd EXCEPT !.line = 192]
    /\ UNCHANGED <<publishing_pwm, center_of_mass, inverse_config,
                   thrust_fit_params, pwm_fit_params, pc, last, prior,
                   accepted, startup, parameter, widget>>

\* lines 192-193
UpdateInverse ==
    /\ upd.line = 192
    /\ inverse_config' = Pinv(motor_config)
    /\ accepted' = Append(accepted, upd.value)
    /\ parameter' = StoredAfter(upd.params, 1, parameter)
    /\ upd' = NoUpdate
    /\ UNCHANGED <<publishing_pwm, center_of_mass, motor_config,
                   thrust_fit_params, pwm_fit_params, pc, last, prior,
                   startup, widget>>

\* line 194
UpdateFails ==
    /\ upd.line = 194
    /\ upd' = NoUpdate
    /\ UNCHANGED <<publishing_pwm, center_of_mass, motor_config,
                   inverse_config, thrust_fit_params, pwm_fit_params, pc,
                   last, prior, accepted, startup, parameter, widget>>

\* a twist callback at any point of the update
TwistDuring(twist_msg) ==
    /\ pc = "spinning"
    /\ RunTwist(twist_msg)

NextThreaded ==
    \/ \E twist_msg \in ProbeTwists \cup {ZeroTwist} : TwistDuring(twist_msg)
    \/ \E e \in 1..Len(ParamEvents) : UpdateOffset(ParamEvents[e])
    \/ UpdateConfig
    \/ UpdateInverse
    \/ UpdateFails
    \/ Spin
    \/ KeyboardInterrupt

SpecThreaded == Init /\ [][NextThreaded]_vars

(***************************************************************************)
(* main from its first line: Thrust.__init__ step by step, then spin.      *)
(* A calibration table is a file beside thrust.py; it may be missing       *)
(* (open raises), or malformed: a line without a tab, a field that is not  *)
(* a number, or fewer rows than parameters (the loop or curve_fit raises). *)
(***************************************************************************)
Tables == {"ok", "missing", "malformed"}

\* a variant that falls back to a built-in calibration when the table
\* cannot be fitted
generate_thrust_fit_param_Fallback(table) ==
    [raised |-> FALSE, params |-> ThrustFits]

\* raised: an exception left the function; params: what curve_fit may return
generate_thrust_fit_param(table) ==
    IF table = "ok" THEN [raised |-> FALSE, params |-> ThrustFits]
    ELSE [raised |-> TRUE, params |-> {<<>>}]

generate_pwm_fit_params(table) ==
    IF table = "ok" THEN [raised |-> FALSE, params |-> PwmFits]
    ELSE [raised |-> TRUE, params |-> {<<>>}]

InitMain ==
    /\ publishing_pwm \in BOOLEAN
    /\ center_of_mass = <<>>
    /\ motor_config = <<>>
    /\ inverse_config = <<>>
    /\ pwm_fit_params = <<>>
    /\ thrust_fit_params = <<>>
    /\ pc = "constructing"
    /\ upd = NoUpdate
    /\ last = Idle
    /\ prior = NoPrior
    /\ accepted = <<>>
    /\ startup \in [pwm_table : Tables, thrust_table : Tables,
                    subscribed : {FALSE}, queued : {FALSE}]
    /\ parameter = publishing_pwm
    /\ widget = NoWidget

\* lines 48-94
Construct ==
    /\ pc = "constructing"
    /\ center_of_mass' = Origin
    /\ motor_config' = generate_motor_config(Origin)
    /\ inverse_config' = Pinv(generate_motor_config(Origin))
    /\ pc' = "mode"
    /\ UNCHANGED <<publishing_pwm, thrust_fit_params, pwm_fit_params, upd,
                   last, prior, accepted, startup, parameter, widget>>

\* lines 96-97: the PWM branch fits the thrust-to-PWM table first
FitPwm ==
    /\ pc = "mode" /\ publishing_pwm
    /\ \E fit \in {generate_pwm_fit_params(startup.pwm_table)} :
          IF fit.raised
          THEN pc' = "failed" /\ UNCHANGED pwm_fit_params
          ELSE pc' = "subscribe" /\ pwm_fit_params' \in fit.params
    /\ UNCHANGED <<publishing_pwm, center_of_mass, motor_config,
                   inverse_config, thrust_fit_params, upd, last, prior,
                   accepted, startup, parameter, widget>>

\* lines 98-99 or 101-102: subscription and publisher of the mode
Subscribe ==
    /\ pc = "subscribe" \/ (pc = "mode" /\ ~publishing_pwm)
    /\ startup' = [startup EXCEPT !.subscribed = TRUE]
    /\ pc' = "thrust_fit"
    /\ UNCHANGED <<publishing_pwm, center_of_mass, motor_config,
                   inverse_config, thrust_fit_params, pwm_fit_params, upd,
                   last, prior, accepted, parameter, widget>>

\* a Twist is published while __init__ still runs: the subscription keeps
\* it, no callback runs outside rclpy.spin
TwistArrives ==
    /\ pc = "thrust_fit" /\ startup.subscribed
    /\ startup' = [startup EXCEPT !.queued = TRUE]
    /\ UNCHANGED <<publishing_pwm, center_of_mass, motor_config,
                   inverse_config, thrust_fit_params, pwm_fit_params, pc, upd,
                   last, prior, accepted, parameter, widget>>

\* line 104, then main calls rclpy.spin(node); an exception of __init__
\* leaves main before spin
FitThrust ==
    /\ pc = "thrust_fit"
    /\ \E fit \in {generate_thrust_fit_param(startup.thrust_table)} :
          IF fit.raised
          THEN pc' = "failed" /\ UNCHANGED thrust_fit_params
          ELSE pc' = "spinning" /\ thrust_fit_params' \in fit.params
    /\ UNCHANGED <<publishing_pwm, center_of_mass, motor_config,
                   inverse_config, pwm_fit_params, upd, last, prior, accepted,
                   startup, parameter, widget>>

NextStartup ==
    \/ Construct
    \/ FitPwm
    \/ Subscribe
    \/ TwistArrives
    \/ FitThrust
    \/ \E twist_msg \in ProbeTwists \cup {ZeroTwist} : TwistMsg(twist_msg)
    \/ Spin
    \/ KeyboardInterrupt

SpecStartup == InitMain /\ [][NextStartup]_vars

(***************************************************************************)
(* CountdownWidget of the dashboard (dash_widgets/countdown_widget.py).    *)
(* The widget is a record: status, count_status, sec_remaining, the two    *)
(* spin boxes, whether the QTimer is active, the text of the start button  *)
(* and the text of the display.  The fields op and before record the last  *)
(* handler that ran and the status it found.                               *)
(***************************************************************************)
MaxMinutes == 1
MaxSeconds == 2
MaxOvertime == 3

Digit(n) == <<"0", "1", "2", "3", "4", "5", "6", "7", "8", "9">>[n + 1]

RECURSIVE str(_)
str(n) == IF n < 10 THEN <<Digit(n)>> ELSE str(n \div 10) \o <<Digit(n % 10)>>

\* SecSpinBox.textFromValue and the same expression in display_time
textFromValue(v) == IF Len(str(v)) = 1 THEN <<"0">> \o str(v) ELSE str(v)

display_time(w) ==
    [w EXCEPT !.timer_display =
        (IF w.count_status = "counting_down"
         THEN str(w.sec_remaining \div 60)
         ELSE <<"-">> \o str(w.sec_remaining \div 60))
        \o <<":">> \o textFromValue(w.sec_remaining % 60)]

SpinBoxTime(w) == w.min_spin_box * 60 + w.sec_spin_box

Ran(w, op, from) == [w EXCEPT !.op = op, !.before = from.status]

spin_box_edit_event(w) ==
    IF w.status = "init"
    THEN display_time([w EXCEPT !.sec_remaining = SpinBoxTime(w)])
    ELSE w

start_event(w) ==
    IF (w.status = "init" \/ w.status = "paused") /\ w.sec_remaining > 0
    THEN [display_time([w EXCEPT !.status = "counting",
                                 !.sec_remaining = w.sec_remaining - 1])
            EXCEPT !.active = TRUE, !.start_button = "Pause"]
    ELSE IF w.status = "counting"
    THEN [w EXCEPT !.active = FALSE, !.status = "paused",
                   !.start_button = "Start"]
    ELSE w

stop_event_KeepsDirection(w) ==
    [display_time([w EXCEPT !.active = FALSE])
        EXCEPT !.start_button = "Start", !.status = "init",
               !.sec_remaining = SpinBoxTime(w)]

stop_event(w) ==
    [display_time([w EXCEPT !.active = FALSE])
        EXCEPT !.start_button = "Start", !.status = "init",
               !.count_status = "counting_down",
               !.sec_remaining = SpinBoxTime(w)]

Direction(w) ==
    IF w.sec_remaining = 0 THEN [w EXCEPT !.count_status = "counting_up"] ELSE w

Counted(w) ==
    IF w.count_status = "counting_down"
    THEN [w EXCEPT !.sec_remaining = w.sec_remaining - 1]
    ELSE [w EXCEPT !.sec_remaining = w.sec_remaining + 1]

countdown_and_display(w) == display_time(Counted(Direction(w)))

\* CountdownWidget.__init__(parent, style_sheet_file, minutes, seconds)
NewWidget(minutes, seconds) ==
    display_time(
        [status |-> "init", count_status |-> "counting_down",
         sec_remaining |-> minutes * 60 + seconds,
         min_spin_box |-> minutes, sec_spin_box |-> seconds,
         active |-> FALSE, start_button |-> "Start",
         timer_display |-> str(minutes) \o <<":">> \o textFromValue(seconds),
         op |-> "__init__", before |-> "none"])

\* the dashboard process holds no Thrust node
InitWidget ==
    /\ publishing_pwm = FALSE
    /\ center_of_mass = <<>>
    /\ motor_config = <<>>
    /\ inverse_config = <<>>
    /\ pwm_fit_params = <<>>
    /\ thrust_fit_params = <<>>
    /\ pc = "dashboard"
    /\ upd = NoUpdate
    /\ last = Idle
    /\ prior = NoPrior
    /\ accepted = <<>>
    /\ startup = Started
    /\ parameter = FALSE
    /\ widget = NoWidget

NodeUnchanged ==
    UNCHANGED <<publishing_pwm, center_of_mass, motor_config, inverse_config,
                thrust_fit_params, pwm_fit_params, pc, upd, last, prior,
                accepted, startup, parameter>>

CountdownWidget(minutes, seconds) ==
    /\ pc = "dashboard" /\ widget = NoWidget
    /\ widget' = NewWidget(minutes, seconds)
    /\ NodeUnchanged

\* the user sets a spin box to another value of its range: valueChanged
minValueChanged(v) ==
    /\ widget # NoWidget /\ v # widget.min_spin_box
    /\ widget' = Ran(spin_box_edit_event([widget EXCEPT !.min_spin_box = v]),
                     "spin_box_edit_event", widget)
    /\ NodeUnchanged

secValueChanged(v) ==
    /\ widget # NoWidget /\ v # widget.sec_spin_box
    /\ widget' = Ran(spin_box_edit_event([widget EXCEPT !.sec_spin_box = v]),
                     "spin_box_edit_event", widget)
    /\ NodeUnchanged

\* start_button.clicked
StartClicked ==
    /\ widget # NoWidget
    /\ widget' = Ran(start_event(widget), "start_event", widget)
    /\ NodeUnchanged

\* stop_button.clicked
StopClicked ==
    /\ widget # NoWidget
    /\ widget' = Ran(stop_event(widget), "stop_event", widget)
    /\ NodeUnchanged

\* timer.timeout, once a second while the QTimer is active
Timeout ==
    /\ widget # NoWidget /\ widget.active
    /\ widget.count_status = "counting_up" => widget.sec_remaining < MaxOvertime
    /\ widget' = Ran(countdown_and_display(widget), "countdown_and_display",
                     widget)
    /\ NodeUnchanged

NextWidget ==
    \/ \E minutes \in 0..MaxMinutes, seconds \in 0..MaxSeconds :
          CountdownWidget(minutes, seconds)
    \/ \E v \in 0..MaxMinutes : minValueChanged(v)
    \/ \E v \in 0..MaxSeconds : secValueChanged(v)
    \/ StartClicked
    \/ StopClicked
    \/ Timeout

SpecWidget == InitWidget /\ [][NextWidget]_vars

(***************************************************************************)
(* The allocation's functions called on their own: the matrix product of   *)
(* line 288 with the pseudo-inverse at offset zero held exactly, and the   *)
(* two limit scalars of lines 290-291 on force vectors that need not come  *)
(* from an allocation.  One call per behaviour.                            *)
(***************************************************************************)
\* forces in newtons: beyond the reverse limit, none, below the forward limit
ForceSamples == {RInt(-80), Zero, RInt(30)}

ForceVectors ==
    {List(a, 4) \o List(b, 4) : a \in [1..4 -> ForceSamples],
                                b \in [1..4 -> ForceSamples]}

\* surge, sway, heave, roll, pitch, yaw
UnitTwists ==
    {List([k \in 1..6 |-> IF k = axis THEN One ELSE Zero], 6) : axis \in 1..6}

InitCalls ==
    /\ publishing_pwm = FALSE
    /\ center_of_mass = Origin
    /\ motor_config = generate_motor_config(center_of_mass)
    /\ inverse_config = Pinv0
    /\ pwm_fit_params = <<>>
    /\ thrust_fit_params \in ThrustFits
    /\ pc = "calling"
    /\ upd = NoUpdate
    /\ last = Idle
    /\ prior = NoPrior
    /\ accepted = <<>>
    /\ startup = Started
    /\ parameter = publishing_pwm
    /\ widget = NoWidget

Called(op, arg, raised, values) ==
    /\ pc = "calling"
    /\ last' = Record(op, arg, IF raised THEN "raised" ELSE "ok", values,
                      <<>>, <<>>)
    /\ pc' = "called"
    /\ UNCHANGED <<publishing_pwm, center_of_mass, motor_config,
                   inverse_config, thrust_fit_params, pwm_fit_params, upd,
                   prior, accepted, startup, parameter, widget>>

\* line 288
CallMatmul(twist_array) ==
    Called("matmul", twist_array, FALSE, MatMul(inverse_config, twist_array))

\* line 290
CallThrustLimit(motor_values) ==
    Called("get_thrust_limit_scalar", motor_values, FALSE,
           <<get_thrust_limit_scalar(motor_values)>>)

CurrentLimitResult(motor_values, current_scalar) ==
    Called("get_minimum_current_scalar", motor_values, current_scalar.raised,
           IF current_scalar.raised THEN <<>> ELSE <<current_scalar.value>>)

\* line 291
CallCurrentLimit(motor_values) ==
    CurrentLimitResult(motor_values, get_minimum_current_scalar(motor_values))

NextCalls ==
    \/ \E twist_array \in UnitTwists : CallMatmul(twist_array)
    \/ \E motor_values \in ForceVectors : CallThrustLimit(motor_values)
    \/ \E motor_values \in ForceVectors : CallCurrentLimit(motor_values)

SpecCalls == InitCalls /\ [][NextCalls]_vars

(***************************************************************************)
(* Thrust.__thrust_to_current: the current the calibration estimates for   *)
(* one thruster at x newtons.                                              *)
(***************************************************************************)
thrust_to_current(x, a, b, c, d, e, f, g) ==
    RSum(<< Monomial(a, x, 6), Monomial(b, x, 5), Monomial(c, x, 4),
            Monomial(d, x, 3), Monomial(e, x, 2), Monomial(f, x, 1), g >>)

\* the estimate summed over the thrusters of a group
EstimatedCurrent(forces, group) ==
    RSum(List([i \in 1..Len(group) |->
                 thrust_to_current(forces[group[i]],
                     thrust_fit_params[1], thrust_fit_params[2],
                     thrust_fit_params[3], thrust_fit_params[4],
                     thrust_fit_params[5], thrust_fit_params[6],
                     thrust_fit_params[7])],
              Len(group)))

AllNeutral == <<[topic |-> "pwm_values", data |-> List([m \in Motors |-> 1500], 8)]>>

TwistDone == last.op = "twist" /\ last.status = "ok"

WithinThrustLimits(forces) ==
    \A m \in Motors : /\ RLe(MAX_REV_THRUST, forces[m])
                      /\ RLe(forces[m], MAX_FWD_THRUST)

(***************************************************************************)
(* C1: for every twist and every center-of-mass offset, each of the 8      *)
(* forces generate_motor_values returns lies within                        *)
(* [MAX_REV_THRUST, MAX_FWD_THRUST].                                       *)
(***************************************************************************)
C1_ForcesWithinThrustLimits == TwistDone => WithinThrustLimits(last.values)

\* a twist with a component beyond 1 has been answered with a force beyond
\* a thrust limit
C1_ForceBeyondLimit ==
    /\ TwistDone
    /\ \E k \in 1..6 : RLt(One, RAbs(last.arg[k]))
    /\ ~WithinThrustLimits(last.values)

(***************************************************************************)
(* C2: in PWM mode every emitted PWM value of a processed twist lies in    *)
(* 1100..1900, and a thruster whose scaled force is exactly 0 gets 1500    *)
(* whatever the thrust-to-PWM polynomial yields at 0.                      *)
(***************************************************************************)
C2_PwmInRangeAndNeutralAtZero ==
    (TwistDone /\ publishing_pwm) =>
        /\ Len(last.emitted) = 1
        /\ last.emitted[1].topic = "pwm_values"
        /\ \A m \in Motors :
              /\ last.emitted[1].data[m] \in 1100..1900
              /\ last.values[m] = Zero => last.emitted[1].data[m] = 1500

\* a nonzero twist under a calibration that does not give 1500 at 0: one
\* thruster has force 0 and another is clamped
C2_ZeroForceAndClamped ==
    /\ TwistDone /\ publishing_pwm
    /\ last.arg # ZeroTwist
    /\ RTrunc(newtons_to_pwm(Zero, pwm_fit_params[1], pwm_fit_params[2],
                             pwm_fit_params[3], pwm_fit_params[4],
                             pwm_fit_params[5], pwm_fit_params[6])) # 1500
    /\ \E m \in Motors : last.values[m] = Zero
    /\ \E m \in Motors : last.emitted[1].data[m] \in {1100, 1900}

(***************************************************************************)
(* C3: whenever the node is torn down, in either output mode, exactly one  *)
(* final command with all 8 values equal to 1500 is emitted.               *)
(***************************************************************************)
C3_TeardownEmitsNeutral == pc = "shutdown" => last.emitted = AllNeutral

\* the node built in thrust mode has been torn down and nothing was emitted
C3_ThrustModeTeardownSilent ==
    pc = "shutdown" /\ ~publishing_pwm /\ last.emitted = <<>>

(***************************************************************************)
(* C4: when the current-limit polynomial of a thruster group has no real   *)
(* non-negative root, the twist handler returns an explicit error result   *)
(* to its caller instead of failing with an unhandled exception, and       *)
(* emits no command for that twist.                                        *)
(***************************************************************************)
NoRootFor(twist_array) ==
    /\ twist_array # ZeroTwist
    /\ get_minimum_current_scalar(MatMul(inverse_config, twist_array)).raised

C4_NoRootIsAnErrorResult ==
    (last.op = "twist" /\ NoRootFor(last.arg)) =>
        /\ last.status = "error"
        /\ pc # "crashed"
        /\ last.emitted = <<>>

\* a twist whose polynomial has no root has ended the spin loop
C4_NoRootCrashes ==
    /\ last.op = "twist" /\ NoRootFor(last.arg)
    /\ last.status = "raised"
    /\ pc = "crashed"

(***************************************************************************)
(* C5: motor_config and inverse_config are replaced together: even when a  *)
(* twist runs concurrently with update_center_of_mass, no twist allocation *)
(* reads a state in which motor_config has been rebuilt for the new offset *)
(* while inverse_config still belongs to the old one.                      *)
(***************************************************************************)
TwistAllocates == last' # last /\ last'.op = "twist" /\ last'.arg # ZeroTwist

RECURSIVE SumSinceReset(_)
SumSinceReset(log) ==
    IF log = <<>> \/ log[Len(log)] = Origin THEN Origin
    ELSE LET before == SumSinceReset(SubSeq(log, 1, Len(log) - 1))
             delta == log[Len(log)]
         IN  <<RAdd(before[1], delta[1]), RAdd(before[2], delta[2]),
               RAdd(before[3], delta[3])>>

C6_OffsetIsSumSinceReset == center_of_mass = SumSinceReset(accepted)

\* two nonzero deltas have been accepted one after the other
C6_TwoIncrementsAdded ==
    /\ Len(accepted) >= 2
    /\ accepted[Len(accepted)] # Origin
    /\ accepted[Len(accepted) - 1] # Origin
    /\ center_of_mass # accepted[Len(accepted)]
    /\ last.op = "params" /\ last.status = "success"

(***************************************************************************)
(* C7: an update whose value does not have exactly 3 components returns a  *)
(* failure result, leaves center_of_mass, motor_config and inverse_config  *)
(* unchanged, and a twist processed after it produces the same output as   *)
(* the same twist processed before it.                                     *)
(***************************************************************************)
WrongLength(params) ==
    /\ \E i \in 1..Len(params) : params[i].name = "center_of_mass_increment"
    /\ \A i \in 1..Len(params) :
          params[i].name = "center_of_mass_increment" => Len(params[i].value) # 3

C7_RejectedUpdateChangesNothing ==
    /\ [][(last' # last /\ last'.op = "params" /\ WrongLength(last'.arg)) =>
             /\ last'.status = "failure"
             /\ center_of_mass' = center_of_mass
             /\ motor_config' = motor_config
             /\ inverse_config' = inverse_config]_vars
    /\ [](  (TwistDone /\ prior.rejected /\ last.arg = prior.twist) =>
                (last.values = prior.values /\ last.emitted = prior.emitted)  )

\* at a nonzero offset a twist has been answered, an update of the wrong
\* length rejected, and the same twist answered again
C7_RejectedAtOffset ==
    /\ TwistDone /\ prior.rejected /\ last.arg = prior.twist
    /\ center_of_mass # Origin

(***************************************************************************)
(* C8: after nonzero increments followed by one update with delta          *)
(* [0,0,0], the offset, motor_config and inverse_config are the ones built *)
(* at startup.                                                             *)
(***************************************************************************)
C8_ResetRestoresStartup ==
    (accepted # <<>> /\ accepted[Len(accepted)] = Origin) =>
        /\ center_of_mass = Origin
        /\ motor_config = generate_motor_config(Origin)
        /\ inverse_config = Pinv(generate_motor_config(Origin))

\* the zero delta has just been accepted after two nonzero ones
C8_ResetAfterIncrement ==
    /\ Len(accepted) = 3
    /\ accepted[1] # Origin /\ accepted[2] # Origin
    /\ accepted[3] = Origin
    /\ last.op = "params" /\ last.status = "success"

(***************************************************************************)
(* C9: for the all-zero twist generate_motor_values returns the all-zero   *)
(* 8-element vector at every offset, without the matrix product, the       *)
(* thrust-limit computation or the current-limit root-finding.             *)
(***************************************************************************)
C9_ZeroTwistFastPath ==
    (last.op = "twist" /\ last.arg = ZeroTwist) =>
        /\ last.status = "ok"
        /\ last.values = List([m \in Motors |-> Zero], 8)
        /\ last.calls = <<>>

\* the zero twist has been processed at a nonzero offset
C9_ZeroTwistAtOffset ==
    /\ last.op = "twist" /\ last.arg = ZeroTwist
    /\ center_of_mass # Origin

(***************************************************************************)
(* C10: for every twist the current the calibration estimates for the      *)
(* emitted forces, summed over all 8 thrusters, does not exceed            *)
(* TOTAL_CURRENT_LIMIT, and summed over thrusters 0-3 and over thrusters   *)
(* 4-7 does not exceed ESC_CURRENT_LIMIT.                                  *)
(***************************************************************************)
WithinCurrentLimits(forces) ==
    /\ RLe(EstimatedCurrent(forces, <<1, 2, 3, 4, 5, 6, 7, 8>>), RInt(TOTAL_CURRENT_LIMIT))
    /\ RLe(EstimatedCurrent(forces, <<1, 2, 3, 4>>), RInt(ESC_CURRENT_LIMIT))
    /\ RLe(EstimatedCurrent(forces, <<5, 6, 7, 8>>), RInt(ESC_CURRENT_LIMIT))

C10_CurrentWithinLimits ==
    (TwistDone /\ last.arg # ZeroTwist) => WithinCurrentLimits(last.values)

\* a twist with a component beyond 1 has been answered with forces whose
\* estimated current is beyond a limit
C10_CurrentBeyondLimit ==
    /\ TwistDone
    /\ \E k \in 1..6 : RLt(One, RAbs(last.arg[k]))
    /\ ~WithinCurrentLimits(last.values)

(***************************************************************************)
(* C11: no twist is processed before the calibration fits of the selected  *)
(* mode have completed: a missing or malformed table makes startup fail    *)
(* and the node never gets to run twist callbacks, although the            *)
(* subscription exists before the thrust-to-current fit.                   *)
(***************************************************************************)
FitsDone ==
    /\ startup.thrust_table = "ok" /\ thrust_fit_params \in ThrustFits
    /\ publishing_pwm => (startup.pwm_table = "ok" /\ pwm_fit_params \in PwmFits)

C12_TwistErrorIsLocal ==
    (last.op = "twist" /\ last.status = "raised") =>
        /\ center_of_mass = SumSinceReset(accepted)
        /\ motor_config = generate_motor_config(center_of_mass)
        /\ inverse_config = Pinv(motor_config)
        /\ pc = "returned"
        /\ ENABLED Spin

\* after an accepted update a twist has raised: the attributes are intact
\* but the spin loop has ended, no callback will run again
C12_SpinEndedByTwistError ==
    /\ last.op = "twist" /\ last.status = "raised"
    /\ accepted # <<>>
    /\ inverse_config = Pinv(generate_motor_config(center_of_mass))
    /\ pc = "crashed"
    /\ ~ENABLED Next

(***************************************************************************)
(* C13: at startup and at every return of update_center_of_mass with a     *)
(* success result, motor_config is the matrix generate_motor_config builds *)
(* from the current center_of_mass and inverse_config is the               *)
(* pseudo-inverse of that motor_config: the rebuild is done inside the     *)
(* handler, before success is returned.                                    *)
(***************************************************************************)
C13_MatricesMatchOffset ==
    (accepted = <<>> \/ (last.op = "params" /\ last.status = "success")) =>
        /\ motor_config = generate_motor_config(center_of_mass)
        /\ inverse_config = Pinv(motor_config)

\* an update has just returned success at a nonzero offset, with matrices
\* that are not the startup ones
C13_RebuiltAtOffset ==
    /\ last.op = "params" /\ last.status = "success"
    /\ center_of_mass # Origin
    /\ motor_config # generate_motor_config(Origin)
    /\ inverse_config # Pinv(generate_motor_config(Origin))

(***************************************************************************)
(* C14: the output mode is fixed at startup: every twist processed         *)
(* successfully produces exactly one 8-element command of the kind chosen  *)
(* at startup, and no parameter update or message switches the mode or     *)
(* makes a twist emit the other kind.                                      *)
(***************************************************************************)
C14_ModeFixedAtStartup ==
    /\ [][publishing_pwm' = publishing_pwm]_vars
    /\ [](TwistDone =>
             /\ Len(last.emitted) = 1
             /\ Len(last.emitted[1].data) = 8
             /\ last.emitted[1].topic =
                    IF publishing_pwm THEN "pwm_values" ELSE "motor_values")

\* the node started in PWM mode, a parameter set has stored
\* publishing_pwm = False, and a twist has still been answered in PWM
C14_PwmAfterParameterFalse ==
    /\ publishing_pwm /\ ~parameter
    /\ TwistDone
    /\ last.emitted[1].topic = "pwm_values"

(***************************************************************************)
(* C15: once the countdown is at 00:00 the next timer tick switches the    *)
(* widget to counting up, and from then on every handler but stop_event    *)
(* leaves it counting up with an overtime that never shrinks and that      *)
(* grows by one second at every tick.                                      *)
(***************************************************************************)
C15_OvertimeNeverShrinks ==
    [][(widget # NoWidget /\ widget' # NoWidget) =>
          /\ (widget.active /\ widget.sec_remaining = 0
                /\ widget'.op = "countdown_and_display")
             => (widget'.count_status = "counting_up"
                   /\ widget'.sec_remaining = 1)
          /\ (widget.count_status = "counting_up"
                /\ widget'.op # "stop_event")
             => /\ widget'.count_status = "counting_up"
                /\ widget'.sec_remaining >= widget.sec_remaining
                /\ widget'.op = "countdown_and_display"
                   => widget'.sec_remaining = widget.sec_remaining + 1]_vars

\* a paused overtime was resumed: start_event took a second off it
C15_ResumedWhileCountingUp ==
    /\ widget # NoWidget
    /\ widget.op = "start_event" /\ widget.before = "paused"
    /\ widget.status = "counting"
    /\ widget.count_status = "counting_up"

(***************************************************************************)
(* C16: for every 8-element force vector get_thrust_limit_scalar returns   *)
(* the minimum over the thrusters of MAX_FWD_THRUST / f when f > 0,        *)
(* MAX_REV_THRUST / f when f < 0 and +infinity when f = 0; the result is   *)
(* strictly positive, and the forces multiplied by any scalar of           *)
(* [0, result] stay within [MAX_REV_THRUST, MAX_FWD_THRUST].               *)
(***************************************************************************)
LimitOf(f) ==
    IF RLt(Zero, f) THEN RDiv(MAX_FWD_THRUST, f)
    ELSE IF RLt(f, Zero) THEN RDiv(MAX_REV_THRUST, f)
    ELSE Inf

\* scalars of [0, result]: both ends and the middle, or three finite ones
\* when the result is +infinity
ScalarsUpTo(result) ==
    IF result = Inf THEN {Zero, One, RInt(1000)}
    ELSE {Zero, RMul(result, Rat(1, 2)), result}

C16_ThrustLimitScalar ==
    last.op = "get_thrust_limit_scalar" =>
        /\ Len(last.arg) = 8
        /\ \A m \in Motors : RLe(last.values[1], LimitOf(last.arg[m]))
        /\ \E m \in Motors : RLe(LimitOf(last.arg[m]), last.values[1])
        /\ RLt(Zero, last.values[1])
        /\ \A scalar \in ScalarsUpTo(last.values[1]) :
              WithinThrustLimits(
                  List([m \in Motors |-> RMul(last.arg[m], scalar)], 8))

\* the scalar of a vector with a force beyond each limit and a zero force:
\* the reverse limit binds
C16_ReverseLimitBinds ==
    /\ last.op = "get_thrust_limit_scalar"
    /\ \E m \in Motors : RLt(MAX_FWD_THRUST, RMul(last.arg[m], RInt(3)))
    /\ \E m \in Motors : RLt(last.arg[m], MAX_REV_THRUST)
    /\ \E m \in Motors : last.arg[m] = Zero
    /\ last.values[1] = RDiv(MAX_REV_THRUST, RInt(-80))
    /\ RLt(last.values[1], One)

(***************************************************************************)
(* C17: the current-limit scalar is the minimum of three group scalars:    *)
(* all 8 thrusters against TOTAL_CURRENT_LIMIT, thrusters 0-3 (circuit A)  *)
(* and thrusters 4-7 (circuit B) each against ESC_CURRENT_LIMIT; a group   *)
(* scalar is the smallest real non-negative root of the group's            *)
(* polynomial, and every thruster is in exactly one circuit.  Stated for   *)
(* the vectors whose three polynomials each have such a root.              *)
(***************************************************************************)
CircuitA == {1, 2, 3, 4}
CircuitB == {5, 6, 7, 8}

GroupOf(mv, circuit) == 
    LET first == CHOOSE m \in circuit : \A n \in circuit : m <= n
    IN  List([i \in 1..Cardinality(circuit) |-> mv[first + i - 1]],
             Cardinality(circuit))

NonNegativeRoots(mv, circuit, limit) ==
    {x \in RealRoots(get_polynomial_coef(GroupOf(mv, circuit), limit)) :
        RLe(Zero, x)}

IsSmallest(x, roots) == x \in roots /\ \A y \in roots : RLe(x, y)

Surge == <<One, Zero, Zero, Zero, Zero, Zero>>

SurgeAllocated ==
    /\ last.op = "matmul" /\ last.arg = Surge
    /\ center_of_mass = Origin

SameMagnitude(values, group) ==
    \A m \in group, n \in group :
        Abs(values[m][1]) * values[n][2] = Abs(values[n][1]) * values[m][2]

Reproduces(values, twist_array) ==
    \A k \in 1..6 :
        LET got == MatMul(motor_config, values)[k]
        IN  got[1] * twist_array[k][2] = twist_array[k][1] * got[2]

\* the claim as stated
C18_SurgeLeavesVerticalsIdle ==
    SurgeAllocated =>
        /\ \A m \in CircuitA : RIsZero(last.values[m])
        /\ \A m \in CircuitB : ~RIsZero(last.values[m])
        /\ SameMagnitude(last.values, CircuitB)
        /\ Reproduces(last.values, Surge)

\* the claim as amended
C18_SurgeAllocation ==
    SurgeAllocated =>
        /\ \A m \in CircuitA :
              /\ RLe(RAbs(last.values[m]), Rat(19, 400))
              /\ RLe(Rat(19, 400), RAbs(last.values[m]))
        /\ RLt(Zero, last.values[1]) /\ RLt(last.values[2], Zero)
        /\ RLt(Zero, last.values[3]) /\ RLt(last.values[4], Zero)
        /\ \A m \in CircuitB : ~RIsZero(last.values[m])
        /\ SameMagnitude(last.values, CircuitB)
        /\ Reproduces(last.values, Surge)

\* the surge twist has been allocated: the vertical thrusters cancel the
\* pitch that the horizontal ones, mounted 38 mm below the origin, produce
C18_SurgePitchCancelled ==
    /\ SurgeAllocated
    /\ ~RIsZero(last.values[1])
    /\ RIsZero(MatMul(motor_config, last.values)[5])
    /\ ~RIsZero(MatMul(motor_config,
                       <<Zero, Zero, Zero, Zero>> \o SubSeq(last.values, 5, 8))[5])

(***************************************************************************)
(* C19: in every reachable paused state of the countdown widget, also one  *)
(* paused at 00:00 or while counting up, a press of the start button       *)
(* resumes: afterwards the status is counting, the QTimer is active and    *)
(* the button reads Pause.                                                 *)
(***************************************************************************)
C19_StartResumesEveryPause ==
    [][(/\ widget # NoWidget /\ widget.status = "paused"
        /\ widget'.op = "start_event")
       => /\ widget'.status = "counting"
          /\ widget'.active
          /\ widget'.start_button = "Pause"]_vars

\* the start button was pressed in a pause at 00:00 and the widget is still
\* paused
C19_StillPausedAtZero ==
    /\ widget # NoWidget
    /\ widget.op = "start_event" /\ widget.before = "paused"
    /\ widget.status = "paused" /\ ~widget.active
    /\ widget.start_button = "Start"
    /\ widget.sec_remaining = 0

(***************************************************************************)
(* C20: from any reachable state of the countdown widget stop_event leaves *)
(* the status init, the direction counting down, the QTimer inactive, the  *)
(* button reading Start and sec_remaining at minutes * 60 + seconds of the *)
(* current spin-box values.                                                *)
(***************************************************************************)
C20_StopResets ==
    (widget # NoWidget /\ widget.op = "stop_event") =>
        /\ widget.status = "init"
        /\ widget.count_status = "counting_down"
        /\ ~widget.active
        /\ widget.start_button = "Start"
        /\ widget.sec_remaining
              = widget.min_spin_box * 60 + widget.sec_spin_box

\* stop was pressed during overtime and the widget is back at a minute or
\* more, while the display still shows the overtime
C20_StoppedInOvertime ==
    /\ widget # NoWidget
    /\ widget.op = "stop_event" /\ widget.before = "counting"
    /\ widget.timer_display[1] = "-"
    /\ widget.status = "init"
    /\ widget.sec_remaining >= 60

(***************************************************************************)
(* C21: after every operation of the countdown widget (construction, spin  *)
(* box edit, start, pause, resume, stop, timer tick) the display shows the *)
(* formatting of the current sec_remaining and count_status; right after   *)
(* stop_event it shows the time of the spin boxes, without a minus sign.   *)
(***************************************************************************)
C21_DisplayShowsState ==
    widget # NoWidget =>
        /\ widget.timer_display = display_time(widget).timer_display
        /\ widget.op = "stop_event" =>
              /\ widget.timer_display[1] # "-"
              /\ widget.timer_display
                    = str(widget.min_spin_box) \o <<":">>
                        \o textFromValue(widget.sec_spin_box)

\* stop was pressed in overtime: the widget is reset to the spin-box time
\* and counts down, the display still shows the overtime with its minus sign
C21_StaleAfterStop ==
    /\ widget # NoWidget
    /\ widget.op = "stop_event"
    /\ widget.count_status = "counting_down"
    /\ widget.sec_remaining = widget.min_spin_box * 60 + widget.sec_spin_box
    /\ widget.timer_display[1] = "-"
    /\ widget.timer_display # display_time(widget).timer_display

(***************************************************************************)
(* C22: update_center_of_mass returns a failure result only for an invalid *)
(* center-of-mass update: a parameter-set event without any                *)
(* center_of_mass_increment parameter, such as one that only sets          *)
(* publishing_pwm, is not reported as failed; and whenever the result is a *)
(* failure, center_of_mass, motor_config and inverse_config are unchanged. *)
(***************************************************************************)
C22_FailureOnlyForInvalidUpdate ==
    [][(last' # last /\ last'.op = "params" /\ last'.status = "failure") =>
          /\ WrongLength(last'.arg)
          /\ center_of_mass' = center_of_mass
          /\ motor_config' = motor_config
          /\ inverse_config' = inverse_config]_vars

\* in PWM mode a request that only sets publishing_pwm to false has been
\* answered with a failure, and the parameter keeps its value
C22_UnrelatedParameterRefused ==
    /\ last.op = "params" /\ last.status = "failure"
    /\ Len(last.arg) = 1
    /\ last.arg[1].name = "publishing_pwm" /\ last.arg[1].value = FALSE
    /\ parameter = TRUE

====
